---- MODULE Spec2Model ----
(***************************************************************************)
(* DecDecRec: the recording session (App.tsx startRecording /              *)
(* stopRecording / togglePause driving services/recorder.ts VideoRecorder) *)
(* and the segment timeline editor (App.tsx VideoEditor).                  *)
(*                                                                         *)
(* Two independent state machines share this module:                       *)
(*   Spec    the recording session: UI clicks, the asynchronous steps of   *)
(*           VideoRecorder.start(), encoder events, timers, render loops.  *)
(*   SpecEd  the editor opened on one saved session: scrub, split, move,   *)
(*           delete, reset.                                                *)
(* Times in the editor are fixed-point milliseconds (exact arithmetic).    *)
(***************************************************************************)
EXTENDS Integers, Sequences, FiniteSets, TLC

\* ---------------------------------------------------------------- bounds
MaxStarts == 2
MaxChunks == 1
MaxElapsed == 1
MaxDuration == 1
MaxSegments == 3
MaxFrames == 2
\* the wall clock is read in steps of 1 / ClockGrain seconds, MaxClock of them
ClockGrain == 2
MaxClock == 3
\* video and box sides run over 1..MaxSide
MaxSide == 3

\* ------------------------------------------------------- program constants
\* split's edge guard, 0.2 s, in milliseconds
GuardMs == 200
\* the lookup tolerance, 0.001 s, in milliseconds
TolMs == 1
\* one second is five guard distances
MsPerSec == 5 * GuardMs
\* checkEnd ends a segment 0.05 s before its end, in milliseconds
EndSlackMs == 50
\* canvas.captureStream(30)
Fps == 30
\* the interval variant's resume(): const frameDelay = 33
ResumeDelayMs == 33

VARIABLES
  \* App, recording tab (React state and refs)
  isRecording, isPaused, elapsed, timerRef, sessions,
  \* VideoRecorder fields
  mediaRecorder, chunks, screenStream, webcamStream, audioStream,
  animationFrameId,
  \* the browser: pending start() calls, encoders, tracks, timers, rAF chains
  pc, useCam, encoder, flushQ, tracks, timers, loops,
  \* history: what each encoder emitted, what stop() returned for it, the
  \* last operation and the session phase it was invoked in
  emitted, blobOf, last,
  \* which VideoRecorder is built (the requestAnimationFrame one or the
  \* setInterval one), App's layout state, the recorder's currentLayout,
  \* targetFps and canvas size, the arguments of each start() call, what each
  \* interval's closure draws with, the overlay position and the drag flag
  variant, layout, currentLayout, targetFps, canvasSize, startCfg, loopCfg,
  webcamPos, isDraggingWebcam,
  \* the wall clock (new Date())
  now,
  \* VideoEditor
  durationSeconds, segments, currentTime, vTime, lastOp,
  \* the editor's <video> element: playing, seeking, the time of the frame
  \* it shows (vTime is its currentTime)
  vPlaying, vSeeking, vShown,
  \* the editor's isPlaying state (the play button)
  isPlaying,
  \* exportVid: React state, its locals (the segment list it captured,
  \* currentSegIdx, the MediaRecorder), where it stands, the frame last drawn
  \* onto the export canvas and the number of frames drawn
  isExporting, exportProgress, exSegs, currentSegIdx, rec, exPc,
  lastDraw, framesDrawn,
  \* drawCover: the arguments of a call and the drawImage it made
  coverIn, coverOut,
  \* drawFrame: what a call finds (layout, canvas, webcamStream, the two
  \* video elements) and what it paints
  drawIn, drawOut,
  \* renderLoop's timing: performance.now(), lastFrameTime, the time of
  \* start(), the frames drawn since, whether the loop runs, and the last
  \* callback
  loopClock, lastFrameTime, loopStart, loopFrames, loopPc, loopCall

recVars == <<isRecording, isPaused, elapsed, timerRef, sessions,
             mediaRecorder, chunks, screenStream, webcamStream, audioStream,
             animationFrameId, pc, useCam, encoder, flushQ, tracks, timers,
             loops, emitted, blobOf, last,
             variant, layout, currentLayout, targetFps, canvasSize, startCfg,
             loopCfg, webcamPos, isDraggingWebcam, now>>
viewVars == <<variant, layout, currentLayout, targetFps, canvasSize, startCfg,
              loopCfg, webcamPos, isDraggingWebcam>>
edVars == <<durationSeconds, segments, currentTime, vTime, lastOp>>
vidVars == <<vPlaying, vSeeking, vShown>>
exVars == <<isExporting, exportProgress, exSegs, currentSegIdx, rec, exPc,
            lastDraw, framesDrawn>>
fnVars == <<coverIn, coverOut, drawIn, drawOut>>
playVars == <<isPlaying>>
loopVars == <<loopClock, lastFrameTime, loopStart, loopFrames, loopPc,
              loopCall>>
vars == <<recVars, edVars, vidVars, exVars, fnVars, playVars, loopVars>>

Attempts == 1..MaxStarts
Kinds == {"screen", "cam", "mic", "dest"}
Pending == {"screen", "cam", "mic"}
Active == {"recording", "paused"}

\* The smallest positive id not in S: a handle the browser has not handed out.
Fresh(S) == CHOOSE n \in 1..(Cardinality(S) + 1) :
              n \notin S /\ \A m \in 1..(n - 1) : m \in S

\* ------------------------------------------------------- layout and quality
Variants == {"raf", "interval"}

\* useState<LayoutStyle>('CIRCLE'), useState<QualityConfig>({ resolution:
\* '1080p', fps: 30 })
DefaultConfig == [layout |-> "CIRCLE", fps |-> 30, resolution |-> "1080p"]

\* The layout and quality selections a recording is started with.
Configs ==
  {DefaultConfig, [layout |-> "SHORTS", fps |-> 60, resolution |-> "720p"]}

NoConfig == [layout |-> "none", fps |-> 0, resolution |-> "none"]
NoFrame == <<>>
NoOverlay == <<>>

\* start(): the canvas is width x height of the resolution, turned upright for
\* SHORTS.
CanvasFor(q) ==
  LET width == IF q.resolution = "720p" THEN 1280 ELSE 1920
      height == IF q.resolution = "720p" THEN 720 ELSE 1080
  IN IF q.layout = "SHORTS"
     THEN << IF q.resolution = "720p" THEN 720 ELSE 1080,
             IF q.resolution = "720p" THEN 1280 ELSE 1920 >>
     ELSE <<width, height>>

\* 1000 / fps milliseconds, in microseconds
IntervalUs(fps) == 1000000 \div fps

\* UpdateWebcamPos without the clamp.
UpdateWebcamPos_NoClamp(x, y) == [x |-> x, y |-> y]

\* Math.max(0, Math.min(100, v))
Clamp(v) == IF v < 0 THEN 0 ELSE IF v > 100 THEN 100 ELSE v

\* updateWebcamPos(x, y), and the same assignment in handleCanvasInteraction
UpdateWebcamPos(x, y) == [x |-> Clamp(x), y |-> Clamp(y)]

\* What the tick of loop c draws: the requestAnimationFrame loop reads
\* currentLayout and targetFps, an interval draws what its closure holds.
\* In CIRCLE the circular overlay is drawn at webcamPos when webcamStream is
\* set (and, in the requestAnimationFrame recorder, the camera video has
\* data); in SHORTS the bottom band is the camera's when webcamStream is set
\* and the '#111' fill otherwise.
FrameOf(c, ready) ==
  LET lay == IF variant = "raf" THEN currentLayout ELSE loopCfg[c].layout
  IN [ layout |-> lay,
       delay |-> IF variant = "raf" THEN IntervalUs(targetFps)
                 ELSE loopCfg[c].delay,
       canvas |-> canvasSize,
       overlay |-> IF /\ lay = "CIRCLE" /\ webcamStream # 0
                      /\ (variant = "raf" => ready)
                   THEN webcamPos ELSE NoOverlay,
       band |-> IF lay # "SHORTS" THEN "none"
                ELSE IF webcamStream # 0 THEN "camera" ELSE "placeholder" ]

\* The recorder and App state the layout lives in, before any start():
\* currentLayout = 'CIRCLE', targetFps = 30, a 1280 x 720 canvas, webcamPos =
\* { x: 85, y: 85 }.
InitView(v) ==
  /\ variant = v
  /\ layout = DefaultConfig.layout
  /\ currentLayout = "CIRCLE" /\ targetFps = 30 /\ canvasSize = <<1280, 720>>
  /\ startCfg = [a \in Attempts |-> NoConfig]
  /\ loopCfg = [c \in 1..(MaxStarts + 1) |-> [layout |-> "none", delay |-> 0]]
  /\ webcamPos = [x |-> 85, y |-> 85]
  /\ isDraggingWebcam = FALSE

\* ------------------------------------------------------------ session phase
\* Idle -> Starting -> Recording -> Paused -> Recording -> Idle as the App
\* and the pending start() calls show it.
Phase ==
  IF isRecording THEN (IF isPaused THEN "Paused" ELSE "Recording")
  ELSE IF \E a \in Attempts : pc[a] \in Pending THEN "Starting"
  ELSE "Idle"

\* ------------------------------------------------------ VideoRecorder.stop()
\* MediaRecorder.stop(): an active encoder becomes inactive and the task that
\* fires its last dataavailable is queued; an inactive one is left alone.
MediaRecorderStop(mr, enc) ==
  IF mr # 0 /\ enc[mr] \in Active THEN [enc EXCEPT ![mr] = "inactive"] ELSE enc

MediaRecorderStopQueue(mr, enc, fq) ==
  IF mr # 0 /\ enc[mr] \in Active THEN fq \cup {mr} ELSE fq

\* stream?.getTracks().forEach(t => t.stop())
StopTracks(tr, kind, stream) ==
  IF stream = 0 THEN tr ELSE [tr EXCEPT ![kind][stream] = "stopped"]

\* stop() releases the three streams the recorder holds in its fields:
\* screenStream, webcamStream and audioStream (the mixer's destination stream).
ReleaseStreams(tr, ss, ws, as) ==
  StopTracks(StopTracks(StopTracks(tr, "screen", ss), "cam", ws), "dest", as)

\* if (this.animationFrameId) cancelAnimationFrame(this.animationFrameId)
CancelFrame(lp, afid) == IF afid # 0 THEN lp \ {afid} ELSE lp

\* The whole of stop(), on the fields as they are when it is called; blob is
\* the chunk sequence (<<>> stands for null), which the callers also note as
\* the ret of their last-operation record.
RecorderStop(mr, enc, fq, afid, lp, ss, ws, as, tr, ch) ==
  [ encoder |-> MediaRecorderStop(mr, enc),
    flushQ  |-> MediaRecorderStopQueue(mr, enc, fq),
    loops   |-> CancelFrame(lp, afid),
    tracks  |-> ReleaseStreams(tr, ss, ws, as),
    blob    |-> ch,
    chunks  |-> <<>> ]

\* The stop() that inactivates encoder mr returns the blob of that recording.
BlobOfAfterStop(mr, enc, blob) ==
  IF mr # 0 /\ enc[mr] \in Active THEN [blobOf EXCEPT ![mr] = <<"blob", blob>>]
  ELSE blobOf

\* formatTimestamp(): DD-Mon-YYYY_HH-mm-ss of the local time, that is the
\* clock cut to whole seconds.
FormatTimestamp(t) == t \div ClockGrain

\* const id = formatTimestamp()
RecordingId(t) == <<"", FormatTimestamp(t)>>

\* const id = `Edited_${formatTimestamp()}`
EditedId(t) == <<"Edited_", FormatTimestamp(t)>>

\* No drawCover call is being looked at.
NoCall == <<>>

\* private lastFrameTime: number = 0; no start() yet, no callback yet
InitLoopVars ==
  /\ loopClock = 0 /\ lastFrameTime = 0 /\ loopStart = 0 /\ loopFrames = 0
  /\ loopPc = "idle" /\ loopCall = NoCall
InitFn ==
  /\ coverIn = NoCall /\ coverOut = NoCall
  /\ drawIn = NoCall /\ drawOut = NoCall
  /\ InitLoopVars

\* --------------------------------------------------------------------- Init
InitRec ==
  /\ isRecording = FALSE /\ isPaused = FALSE /\ elapsed = 0
  /\ timerRef = 0 /\ sessions = <<>>
  /\ mediaRecorder = 0 /\ chunks = <<>>
  /\ screenStream = 0 /\ webcamStream = 0 /\ audioStream = 0
  /\ animationFrameId = 0
  /\ pc = [a \in Attempts |-> "idle"]
  /\ useCam = [a \in Attempts |-> FALSE]
  /\ encoder = [a \in Attempts |-> "none"]
  /\ flushQ = {}
  /\ tracks = [k \in Kinds |-> [a \in Attempts |-> "none"]]
  /\ timers = {} /\ loops = {}
  /\ emitted = [a \in Attempts |-> <<>>]
  /\ blobOf = [a \in Attempts |-> <<"none">>]
  /\ last = [op |-> "init", a |-> 0, phase |-> "Idle",
            frame |-> NoFrame]
  /\ now = 0

\* ------------------------------------------------------------ App handlers
\* startRecording up to start()'s first await: the button is rendered while
\* !isRecording; start(layout, quality, ...) is called with App's layout and
\* the selected quality, sizes the canvas, and asks for the screen.
StartClick(a, w, q) ==
  /\ ~isRecording
  /\ pc[a] = "idle" /\ \A b \in 1..(a - 1) : pc[b] # "idle"
  /\ pc' = [pc EXCEPT ![a] = "screen"]
  /\ useCam' = [useCam EXCEPT ![a] = w]
  /\ q.layout = layout
  /\ startCfg' = [startCfg EXCEPT ![a] = q]
  /\ canvasSize' = CanvasFor(q)
  /\ targetFps' = IF variant = "raf" THEN q.fps ELSE targetFps
  /\ currentLayout' = IF variant = "raf" THEN q.layout ELSE currentLayout
  /\ UNCHANGED <<variant, layout, loopCfg, webcamPos, isDraggingWebcam>>
  /\ last' = [op |-> "start", a |-> a, phase |-> Phase,
            frame |-> NoFrame]
  /\ UNCHANGED <<edVars, vidVars, exVars, now, fnVars, playVars, loopVars>>
  /\ UNCHANGED <<isRecording, isPaused, elapsed, timerRef, sessions,
                 mediaRecorder, chunks, screenStream, webcamStream,
                 audioStream, animationFrameId, encoder, flushQ, tracks,
                 timers, loops, emitted, blobOf>>

\* getDisplayMedia resolved: this.screenStream is set, the screen plays, and
\* the next device is asked for.
ScreenGranted(a) ==
  /\ pc[a] = "screen"
  /\ screenStream' = a
  /\ tracks' = [tracks EXCEPT !["screen"][a] = "live"]
  /\ pc' = [pc EXCEPT ![a] = IF useCam[a] THEN "cam" ELSE "mic"]
  /\ last' = [op |-> "screenGranted", a |-> a, phase |-> Phase,
            frame |-> NoFrame]
  /\ UNCHANGED <<edVars, vidVars, exVars, now, fnVars, playVars, loopVars>>
  /\ UNCHANGED viewVars
  /\ UNCHANGED <<isRecording, isPaused, elapsed, timerRef, sessions,
                 mediaRecorder, chunks, webcamStream, audioStream,
                 animationFrameId, useCam, encoder, flushQ, timers, loops,
                 emitted, blobOf>>

\* getUserMedia(video) resolved: this.webcamStream is set.
CamGranted(a) ==
  /\ pc[a] = "cam"
  /\ webcamStream' = a
  /\ tracks' = [tracks EXCEPT !["cam"][a] = "live"]
  /\ pc' = [pc EXCEPT ![a] = "mic"]
  /\ last' = [op |-> "camGranted", a |-> a, phase |-> Phase,
            frame |-> NoFrame]
  /\ UNCHANGED <<edVars, vidVars, exVars, now, fnVars, playVars, loopVars>>
  /\ UNCHANGED viewVars
  /\ UNCHANGED <<isRecording, isPaused, elapsed, timerRef, sessions,
                 mediaRecorder, chunks, screenStream, audioStream,
                 animationFrameId, useCam, encoder, flushQ, timers, loops,
                 emitted, blobOf>>

\* An awaited acquisition rejected: catch { this.stop(); throw err } and
\* startRecording's catch reports the error.
AcquireFail(a) ==
  /\ pc[a] \in Pending
  /\ LET r == RecorderStop(mediaRecorder, encoder, flushQ, animationFrameId,
                           loops, screenStream, webcamStream, audioStream,
                           tracks, chunks)
     IN /\ encoder' = r.encoder /\ flushQ' = r.flushQ /\ loops' = r.loops
        /\ tracks' = r.tracks /\ chunks' = r.chunks
        /\ blobOf' = BlobOfAfterStop(mediaRecorder, encoder, r.blob)
  /\ pc' = [pc EXCEPT ![a] = "failed"]
  /\ last' = [op |-> "startFailed", a |-> a, phase |-> Phase,
            frame |-> NoFrame, ret |-> chunks]
  /\ UNCHANGED <<edVars, vidVars, exVars, now, fnVars, playVars, loopVars>>
  /\ UNCHANGED viewVars
  /\ UNCHANGED <<isRecording, isPaused, elapsed, timerRef, sessions,
                 mediaRecorder, screenStream, webcamStream, audioStream,
                 animationFrameId, useCam, timers, emitted>>

\* getUserMedia(audio) resolved and the MediaRecorder is constructed and
\* started: the rest of start() and startRecording's continuation run without
\* another task in between.
MicGranted(a) ==
  /\ pc[a] = "mic"
  /\ audioStream' = a
  /\ tracks' = [tracks EXCEPT !["mic"][a] = "live", !["dest"][a] = "live"]
  /\ mediaRecorder' = a
  /\ encoder' = [encoder EXCEPT ![a] = "recording"]
  /\ chunks' = <<>>
  /\ LET c == Fresh(loops \cup {animationFrameId})
     IN /\ loops' = loops \cup {c} /\ animationFrameId' = c
        /\ loopCfg' = IF variant = "interval"
                       THEN [loopCfg EXCEPT ![c] =
                               [layout |-> startCfg[a].layout,
                                delay |-> IntervalUs(startCfg[a].fps)]]
                       ELSE loopCfg
  /\ UNCHANGED <<variant, layout, currentLayout, targetFps, canvasSize,
                 startCfg, webcamPos, isDraggingWebcam>>
  /\ isRecording' = TRUE /\ isPaused' = FALSE /\ elapsed' = 0
  /\ LET t == Fresh(timers \cup {timerRef})
     IN timers' = timers \cup {t} /\ timerRef' = t
  /\ pc' = [pc EXCEPT ![a] = "done"]
  /\ last' = [op |-> "started", a |-> a, phase |-> Phase,
            frame |-> NoFrame]
  /\ UNCHANGED <<edVars, vidVars, exVars, now, fnVars, playVars, loopVars>>
  /\ UNCHANGED <<sessions, screenStream, webcamStream, useCam, flushQ,
                 emitted, blobOf>>

\* getUserMedia(audio) resolved but new MediaRecorder(stream, options) throws
\* (the mimeType is not supported): audioStream is already the mixer's
\* destination stream; catch { this.stop(); throw err }.
EncoderFail(a) ==
  /\ pc[a] = "mic"
  /\ audioStream' = a
  /\ LET tr == [tracks EXCEPT !["mic"][a] = "live", !["dest"][a] = "live"]
         r == RecorderStop(mediaRecorder, encoder, flushQ, animationFrameId,
                           loops, screenStream, webcamStream, a, tr, chunks)
     IN /\ encoder' = r.encoder /\ flushQ' = r.flushQ /\ loops' = r.loops
        /\ tracks' = r.tracks /\ chunks' = r.chunks
        /\ blobOf' = BlobOfAfterStop(mediaRecorder, encoder, r.blob)
  /\ pc' = [pc EXCEPT ![a] = "failed"]
  /\ last' = [op |-> "startFailed", a |-> a, phase |-> Phase,
            frame |-> NoFrame, ret |-> chunks]
  /\ UNCHANGED <<edVars, vidVars, exVars, now, fnVars, playVars, loopVars>>
  /\ UNCHANGED viewVars
  /\ UNCHANGED <<isRecording, isPaused, elapsed, timerRef, sessions,
                 mediaRecorder, screenStream, webcamStream, animationFrameId,
                 useCam, timers, emitted>>

\* stopRecording: setIsRecording(false), clear the timer, stop(), and save
\* the session when a blob came back.
StopClick ==
  /\ isRecording
  /\ isRecording' = FALSE
  /\ timers' = IF timerRef # 0 THEN timers \ {timerRef} ELSE timers
  /\ LET r == RecorderStop(mediaRecorder, encoder, flushQ, animationFrameId,
                           loops, screenStream, webcamStream, audioStream,
                           tracks, chunks)
     IN /\ encoder' = r.encoder /\ flushQ' = r.flushQ /\ loops' = r.loops
        /\ tracks' = r.tracks /\ chunks' = r.chunks
        /\ blobOf' = BlobOfAfterStop(mediaRecorder, encoder, r.blob)
        /\ sessions' = IF r.blob # <<>>
                       THEN Append(sessions, [id |-> RecordingId(now),
                                              durationSeconds |-> elapsed,
                                              videoBlob |-> r.blob])
                       ELSE sessions
  /\ last' = [op |-> "stop", a |-> mediaRecorder, phase |-> Phase,
            frame |-> NoFrame, ret |-> chunks]
  /\ UNCHANGED <<edVars, vidVars, exVars, now, fnVars, playVars, loopVars>>
  /\ UNCHANGED viewVars
  /\ UNCHANGED <<isPaused, elapsed, timerRef, mediaRecorder, screenStream,
                 webcamStream, audioStream, animationFrameId, pc, useCam,
                 emitted>>

\* togglePause while running: pause() pauses the encoder (it throws on an
\* inactive one, which ends the handler) and cancels the frame request.
PauseClick ==
  /\ isRecording /\ ~isPaused
  /\ last' = [op |-> "pause", a |-> mediaRecorder, phase |-> Phase,
            frame |-> NoFrame]
  /\ IF mediaRecorder # 0 /\ encoder[mediaRecorder] = "inactive"
     THEN UNCHANGED <<isPaused, encoder, loops, timers>>
     ELSE /\ encoder' = IF mediaRecorder # 0
                        THEN [encoder EXCEPT ![mediaRecorder] = "paused"]
                        ELSE encoder
          /\ loops' = CancelFrame(loops, animationFrameId)
          /\ isPaused' = TRUE
          /\ timers' = IF timerRef # 0 THEN timers \ {timerRef} ELSE timers
  /\ UNCHANGED <<edVars, vidVars, exVars, now, fnVars, playVars, loopVars>>
  /\ UNCHANGED viewVars
  /\ UNCHANGED <<isRecording, elapsed, timerRef, sessions, mediaRecorder,
                 chunks, screenStream, webcamStream, audioStream,
                 animationFrameId, pc, useCam, flushQ, tracks, emitted,
                 blobOf>>

\* togglePause while paused: resume() resumes the encoder (it throws on an
\* inactive one), restarts the render loop, and a new timer is set.
ResumeClick ==
  /\ isRecording /\ isPaused
  /\ last' = [op |-> "resume", a |-> mediaRecorder, phase |-> Phase,
            frame |-> NoFrame]
  /\ IF mediaRecorder # 0 /\ encoder[mediaRecorder] = "inactive"
     THEN UNCHANGED <<isPaused, encoder, loops, timers, timerRef,
                      animationFrameId, loopCfg>>
     ELSE /\ encoder' = IF mediaRecorder # 0
                        THEN [encoder EXCEPT ![mediaRecorder] = "recording"]
                        ELSE encoder
          /\ LET c == Fresh(loops \cup {animationFrameId})
             IN /\ loops' = loops \cup {c} /\ animationFrameId' = c
                /\ loopCfg' = IF variant = "interval"
                               THEN [loopCfg EXCEPT ![c] =
                                       [layout |-> "CIRCLE",
                                        delay |-> ResumeDelayMs * 1000]]
                               ELSE loopCfg
          /\ isPaused' = FALSE
          /\ LET t == Fresh(timers \cup {timerRef})
             IN timers' = timers \cup {t} /\ timerRef' = t
  /\ UNCHANGED <<edVars, vidVars, exVars, now, fnVars, playVars, loopVars>>
  /\ UNCHANGED <<variant, layout, currentLayout, targetFps, canvasSize,
                 startCfg, webcamPos, isDraggingWebcam>>
  /\ UNCHANGED <<isRecording, elapsed, sessions, mediaRecorder, chunks,
                 screenStream, webcamStream, audioStream, pc, useCam, flushQ,
                 tracks, emitted, blobOf>>

\* ----------------------------------------------------------- browser events
\* ondataavailable: if (e.data.size > 0) this.chunks.push(e.data)
OnDataAvailable(ch, a, size) ==
  IF size > 0 THEN Append(ch, <<a, Len(emitted[a]) + 1>>) ELSE ch

EmittedAfter(a, size) ==
  IF size > 0 THEN [emitted EXCEPT ![a] = Append(@, <<a, Len(@) + 1>>)]
  ELSE emitted

\* A timeslice (100 ms) chunk of a recording encoder.
EncoderEmit(a, size) ==
  /\ encoder[a] = "recording"
  /\ Len(emitted[a]) < MaxChunks
  /\ chunks' = OnDataAvailable(chunks, a, size)
  /\ emitted' = EmittedAfter(a, size)
  /\ last' = [op |-> "dataavailable", a |-> a, phase |-> Phase,
            frame |-> NoFrame]
  /\ UNCHANGED <<edVars, vidVars, exVars, now, fnVars, playVars, loopVars>>
  /\ UNCHANGED viewVars
  /\ UNCHANGED <<isRecording, isPaused, elapsed, timerRef, sessions,
                 mediaRecorder, screenStream, webcamStream, audioStream,
                 animationFrameId, pc, useCam, encoder, flushQ, tracks,
                 timers, loops, blobOf>>

\* The task MediaRecorder.stop() queued: the last dataavailable of encoder a.
FlushDeliver(a, size) ==
  /\ a \in flushQ
  /\ flushQ' = flushQ \ {a}
  /\ chunks' = OnDataAvailable(chunks, a, size)
  /\ emitted' = EmittedAfter(a, size)
  /\ last' = [op |-> "flush", a |-> a, phase |-> Phase,
            frame |-> NoFrame]
  /\ UNCHANGED <<edVars, vidVars, exVars, now, fnVars, playVars, loopVars>>
  /\ UNCHANGED viewVars
  /\ UNCHANGED <<isRecording, isPaused, elapsed, timerRef, sessions,
                 mediaRecorder, screenStream, webcamStream, audioStream,
                 animationFrameId, pc, useCam, encoder, tracks, timers,
                 loops, blobOf>>

\* setInterval(() => setElapsed(prev => prev + 1), 1000)
TimerTick(t) ==
  /\ t \in timers
  /\ elapsed < MaxElapsed
  /\ elapsed' = elapsed + 1
  /\ last' = [op |-> "tick", a |-> 0, phase |-> Phase,
            frame |-> NoFrame]
  /\ UNCHANGED <<edVars, vidVars, exVars, now, fnVars, playVars, loopVars>>
  /\ UNCHANGED viewVars
  /\ UNCHANGED <<isRecording, isPaused, timerRef, sessions, mediaRecorder,
                 chunks, screenStream, webcamStream, audioStream,
                 animationFrameId, pc, useCam, encoder, flushQ, tracks,
                 timers, loops, emitted, blobOf>>

\* renderLoop without its try / catch: a throwing drawFrame ends the chain.
LoopsAfterTick_NoCatch(c, ok) ==
  IF ok \/ variant # "raf" THEN loops ELSE loops \ {c}

\* The loops live after a tick of loop c: renderLoop catches what drawFrame
\* throws and requests the next frame; an interval keeps firing after its
\* callback threw.
LoopsAfterTick(c, ok) == loops

\* What became of the draw: drawn, failed and caught by renderLoop's try /
\* catch, or failed and thrown out of the interval's callback.
DrawOutcome(ok) ==
  IF ok THEN "frame" ELSE IF variant = "raf" THEN "frameError"
  ELSE "frameThrew"

\* A requestAnimationFrame callback of chain c (renderLoop runs and stores
\* the id of its next request) or a firing of interval c; ok says whether
\* drawFrame returned, ready whether the camera video has data.
RenderTick(c, ok, ready) ==
  /\ c \in loops
  /\ animationFrameId' = IF variant = "raf" THEN c ELSE animationFrameId
  /\ loops' = LoopsAfterTick(c, ok)
  /\ last' = [op |-> DrawOutcome(ok), a |-> 0, phase |-> Phase,
              frame |-> IF ok THEN FrameOf(c, ready) ELSE NoFrame]
  /\ UNCHANGED <<edVars, vidVars, exVars, now, fnVars, playVars, loopVars>>
  /\ UNCHANGED viewVars
  /\ UNCHANGED <<isRecording, isPaused, elapsed, timerRef, sessions,
                 mediaRecorder, chunks, screenStream, webcamStream,
                 audioStream, pc, useCam, encoder, flushQ, tracks, timers,
                 emitted, blobOf>>

NextRec ==
  \/ \E a \in Attempts, w \in BOOLEAN : StartClick(a, w, DefaultConfig)
  \/ \E a \in Attempts : ScreenGranted(a)
  \/ \E a \in Attempts : CamGranted(a)
  \/ \E a \in Attempts : AcquireFail(a)
  \/ \E a \in Attempts : MicGranted(a)
  \/ \E a \in Attempts : EncoderFail(a)
  \/ StopClick
  \/ PauseClick
  \/ ResumeClick
  \/ \E a \in Attempts, size \in {0, 1} : EncoderEmit(a, size)
  \/ \E a \in Attempts, size \in {0, 1} : FlushDeliver(a, size)
  \/ \E t \in 1..(MaxStarts + 1) : TimerTick(t)
  \/ \E c \in 1..(MaxStarts + 1), ok, ready \in BOOLEAN :
       RenderTick(c, ok, ready)

\* ------------------------------------------------------------------ editor
\* const [segments, setSegments] = useState([{ id: '1', start: 0,
\*   end: session.durationSeconds, duration: session.durationSeconds, ... }])
\* (the display colour of a segment is presentation only and is left out)
Seed(d) ==
  << [id |-> 1, start |-> 0, end |-> d * MsPerSec,
      duration |-> d * MsPerSec] >>

\* acc after the first n segments: the sum of their durations.
RECURSIVE SumTo(_, _)
SumTo(segs, n) == IF n = 0 THEN 0 ELSE SumTo(segs, n - 1) + segs[n].duration

\* segments.reduce((a, b) => a + b.duration, 0)
totalDuration(segs) == SumTo(segs, Len(segs))

\* The first index a scan stops at, given the set of indices its test
\* accepts; 0 when the scan runs out.
FirstIdx(hits) ==
  IF hits = {} THEN 0 ELSE CHOOSE i \in hits : \A j \in hits : i <= j

\* seekToVirtualTime's scan: virtualTime >= acc && virtualTime <= acc +
\* seg.duration + 0.001
SeekIdx(segs, t) ==
  LET hit(i) == /\ t >= SumTo(segs, i - 1)
                /\ t <= SumTo(segs, i - 1) + segs[i].duration + TolMs
  IN FirstIdx({i \in 1..Len(segs) : hit(i)})

\* videoRef.current.currentTime after seekToVirtualTime(t) over segs
SeekVideoTime(segs, t, v) ==
  LET i == SeekIdx(segs, t)
  IN IF i = 0 THEN v ELSE segs[i].start + (t - SumTo(segs, i - 1))

\* the virtual playhead after seekToVirtualTime(t) over segs
SeekCurrentTime(segs, t, c) == IF SeekIdx(segs, t) = 0 THEN c ELSE t

\* assigning videoRef.current.currentTime starts a seek: the element keeps
\* showing the frame it had until the seek completes
SeekSeeking(segs, t, sk) == IF SeekIdx(segs, t) = 0 THEN sk ELSE TRUE

\* split's findIndex: currentTime >= acc && currentTime < acc + s.duration +
\* 0.001
ActiveIdx(segs, t) ==
  LET hit(i) == /\ t >= SumTo(segs, i - 1)
                /\ t < SumTo(segs, i - 1) + segs[i].duration + TolMs
  IN FirstIdx({i \in 1..Len(segs) : hit(i)})

\* offsetInSeg = currentTime - acc
OffsetInSeg(segs, t) == t - SumTo(segs, ActiveIdx(segs, t) - 1)

\* SplitAccepted without the end-edge test.
SplitAccepted_NoEndGuard(segs, t) ==
  /\ ActiveIdx(segs, t) # 0
  /\ ~ (OffsetInSeg(segs, t) < GuardMs)

\* SplitAccepted with the guard compared against half the distance.
SplitAccepted_HalfGuard(segs, t) ==
  /\ ActiveIdx(segs, t) # 0
  /\ ~ \/ OffsetInSeg(segs, t) < GuardMs \div 2
       \/ OffsetInSeg(segs, t) >
            segs[ActiveIdx(segs, t)].duration - GuardMs \div 2

\* if (activeIdx === -1) return;
\* if (offsetInSeg < 0.2 || offsetInSeg > s.duration - 0.2) return;
SplitAccepted(segs, t) ==
  /\ ActiveIdx(segs, t) # 0
  /\ ~ \/ OffsetInSeg(segs, t) < GuardMs
       \/ OffsetInSeg(segs, t) > segs[ActiveIdx(segs, t)].duration - GuardMs

\* Math.random().toString(): an id no segment of the list carries ('1' is
\* the seed's).
FreshId(used) == Fresh(used \cup {1})

\* SplitResult whose trailing piece keeps the whole duration of s.
SplitResult_TailKeepsDuration(segs, t) ==
  LET i == ActiveIdx(segs, t)
      s == segs[i]
      o == OffsetInSeg(segs, t)
      used == {segs[j].id : j \in 1..Len(segs)}
      id1 == FreshId(used)
      id2 == FreshId(used \cup {id1})
  IN SubSeq(segs, 1, i - 1)
     \o << [s EXCEPT !.id = id1, !.end = s.start + o, !.duration = o],
           [id |-> id2, start |-> s.start + o, end |-> s.end,
            duration |-> s.duration] >>
     \o SubSeq(segs, i + 1, Len(segs))

\* SplitResult whose trailing piece starts at the segment's start.
SplitResult_TailFromStart(segs, t) ==
  LET i == ActiveIdx(segs, t)
      s == segs[i]
      o == OffsetInSeg(segs, t)
      used == {segs[j].id : j \in 1..Len(segs)}
      id1 == FreshId(used)
      id2 == FreshId(used \cup {id1})
  IN SubSeq(segs, 1, i - 1)
     \o << [s EXCEPT !.id = id1, !.end = s.start + o, !.duration = o],
           [id |-> id2, start |-> s.start, end |-> s.end,
            duration |-> s.duration - o] >>
     \o SubSeq(segs, i + 1, Len(segs))

\* SplitResult that appends the trailing piece at the end of the list.
SplitResult_TailAppended(segs, t) ==
  LET i == ActiveIdx(segs, t)
      s == segs[i]
      o == OffsetInSeg(segs, t)
      used == {segs[j].id : j \in 1..Len(segs)}
      id1 == FreshId(used)
      id2 == FreshId(used \cup {id1})
  IN SubSeq(segs, 1, i - 1)
     \o << [s EXCEPT !.id = id1, !.end = s.start + o, !.duration = o] >>
     \o SubSeq(segs, i + 1, Len(segs))
     \o << [id |-> id2, start |-> s.start + o, end |-> s.end,
             duration |-> s.duration - o] >>

\* ns.splice(activeIdx, 1, {...s, id, end: sourceSplitPoint, duration:
\* offsetInSeg}, {id, start: sourceSplitPoint, end: s.end, duration:
\* s.duration - offsetInSeg, color})
SplitResult(segs, t) ==
  LET i == ActiveIdx(segs, t)
      s == segs[i]
      o == OffsetInSeg(segs, t)
      sourceSplitPoint == s.start + o
      used == {segs[j].id : j \in 1..Len(segs)}
      id1 == FreshId(used)
      id2 == FreshId(used \cup {id1})
  IN SubSeq(segs, 1, i - 1)
     \o << [s EXCEPT !.id = id1, !.end = sourceSplitPoint, !.duration = o],
           [id |-> id2, start |-> sourceSplitPoint, end |-> s.end,
            duration |-> s.duration - o] >>
     \o SubSeq(segs, i + 1, Len(segs))

\* The exchange written as two assignments without a temporary.
MoveResult_Overwrite(segs, idx, target) ==
  [k \in 1..Len(segs) |-> IF k = idx THEN segs[target] ELSE segs[k]]

\* [ns[idx], ns[target]] = [ns[target], ns[idx]]
MoveResult(segs, idx, target) ==
  [k \in 1..Len(segs) |->
     IF k = idx THEN segs[target] ELSE IF k = target THEN segs[idx]
     ELSE segs[k]]

\* segments.filter(seg => seg.id !== s.id)
DeleteResult(segs, idx) == SelectSeq(segs, LAMBDA seg : seg.id # segs[idx].id)

\* The timeline positions the scrub handler can ask for (x / rect.width *
\* totalDuration), sampled: the multiples of the guard distance, and one
\* point inside the guard band of each end of the timeline.
IsScrubTarget(t, total) ==
  /\ t >= 0 /\ t <= total
  /\ \/ t % GuardMs = 0
     \/ t = GuardMs \div 2
     \/ t = total - GuardMs \div 2

\* Every half guard distance up to the longest timeline: a superset of the
\* targets of any timeline.
ScrubGrid ==
  {k * (GuardMs \div 2) : k \in 0..((2 * MaxDuration * MsPerSec) \div GuardMs)}

\* The <video> element before anything played or seeked.
InitVideo ==
  /\ vPlaying = FALSE /\ vSeeking = FALSE /\ vShown = 0
  /\ isPlaying = FALSE

\* useState(false), useState(0): no export has been started.
InitExport ==
  /\ isExporting = FALSE /\ exportProgress = 0
  /\ exSegs = <<>> /\ currentSegIdx = 0 /\ rec = "none" /\ exPc = "idle"
  /\ lastDraw = [seg |-> 0, t |-> 0] /\ framesDrawn = 0

\* The editor as it opens on a session: the seed timeline, the playhead and
\* the video at 0.
InitEd ==
  /\ InitRec /\ InitFn /\ InitView("raf")
  /\ durationSeconds \in 0..MaxDuration
  /\ segments = Seed(durationSeconds)
  /\ currentTime = 0 /\ vTime = 0
  /\ lastOp = [op |-> "open", idx |-> 0, ok |-> TRUE]
  /\ InitVideo /\ InitExport

\* scrub: seekToVirtualTime(target)
Scrub(target) ==
  /\ IsScrubTarget(target, totalDuration(segments))
  /\ vTime' = SeekVideoTime(segments, target, vTime)
  /\ currentTime' = SeekCurrentTime(segments, target, currentTime)
  /\ vSeeking' = SeekSeeking(segments, target, vSeeking)
  /\ lastOp' = [op |-> "scrub", idx |-> 0, ok |-> TRUE]
  /\ UNCHANGED <<durationSeconds, segments, vPlaying, vShown>>
  /\ UNCHANGED exVars
  /\ UNCHANGED <<recVars, fnVars, playVars, loopVars>>

\* split at the virtual playhead
Split ==
  /\ Len(segments) < MaxSegments
  /\ segments' = IF SplitAccepted(segments, currentTime)
                 THEN SplitResult(segments, currentTime) ELSE segments
  /\ lastOp' = [op |-> "split", idx |-> ActiveIdx(segments, currentTime),
                ok |-> SplitAccepted(segments, currentTime)]
  /\ UNCHANGED <<durationSeconds, currentTime, vTime>>
  /\ UNCHANGED <<vidVars, exVars>>
  /\ UNCHANGED <<recVars, fnVars, playVars, loopVars>>

\* moveSegment(idx, dir): out of range returns at once; otherwise swap,
\* setSegments, and seekToVirtualTime(0) over the list of this render.
MoveSegment(idx, dir) ==
  /\ idx \in 1..Len(segments)
  /\ LET target == idx + dir
     IN IF target < 1 \/ target > Len(segments)
        THEN /\ UNCHANGED <<segments, currentTime, vTime, vSeeking>>
             /\ lastOp' = [op |-> "move", idx |-> idx, ok |-> FALSE]
        ELSE /\ segments' = MoveResult(segments, idx, target)
             /\ vTime' = SeekVideoTime(segments, 0, vTime)
             /\ currentTime' = SeekCurrentTime(segments, 0, currentTime)
             /\ vSeeking' = SeekSeeking(segments, 0, vSeeking)
             /\ lastOp' = [op |-> "move", idx |-> idx, ok |-> TRUE]
  /\ UNCHANGED <<durationSeconds, vPlaying, vShown>>
  /\ UNCHANGED exVars
  /\ UNCHANGED <<recVars, fnVars, playVars, loopVars>>

\* the delete button of segment idx: setSegments(segments.filter(...));
\* seekToVirtualTime(0)
DeleteSegment(idx) ==
  /\ idx \in 1..Len(segments)
  /\ segments' = DeleteResult(segments, idx)
  /\ vTime' = SeekVideoTime(segments, 0, vTime)
  /\ currentTime' = SeekCurrentTime(segments, 0, currentTime)
  /\ vSeeking' = SeekSeeking(segments, 0, vSeeking)
  /\ lastOp' = [op |-> "delete", idx |-> idx, ok |-> TRUE]
  /\ UNCHANGED <<durationSeconds, vPlaying, vShown>>
  /\ UNCHANGED exVars
  /\ UNCHANGED <<recVars, fnVars, playVars, loopVars>>

\* A reset that clears the list.
ResetSegments_Empty(d) == <<>>

\* Reset All's literal: [{ id: '1', start: 0, end: session.durationSeconds,
\* duration: session.durationSeconds, color: COLORS[0] }]
ResetSegments(d) ==
  << [id |-> 1, start |-> 0, end |-> d * MsPerSec,
      duration |-> d * MsPerSec] >>

\* Reset All: setSegments([...]); seekToVirtualTime(0)
ResetAll ==
  /\ segments' = ResetSegments(durationSeconds)
  /\ vTime' = SeekVideoTime(segments, 0, vTime)
  /\ currentTime' = SeekCurrentTime(segments, 0, currentTime)
  /\ vSeeking' = SeekSeeking(segments, 0, vSeeking)
  /\ lastOp' = [op |-> "reset", idx |-> 0, ok |-> TRUE]
  /\ UNCHANGED <<durationSeconds, vPlaying, vShown>>
  /\ UNCHANGED exVars
  /\ UNCHANGED <<recVars, fnVars, playVars, loopVars>>

NextEd ==
  \/ \E target \in ScrubGrid : Scrub(target)
  \/ Split
  \/ \E idx \in 1..MaxSegments, dir \in {-1, 1} : MoveSegment(idx, dir)
  \/ \E idx \in 1..MaxSegments : DeleteSegment(idx)
  \/ ResetAll

SpecEd == InitEd /\ [][NextEd]_vars

\* No editor is open while the recording tab is modelled.
InitEdIdle ==
  /\ durationSeconds = 0 /\ segments = <<>> /\ currentTime = 0 /\ vTime = 0
  /\ lastOp = [op |-> "closed", idx |-> 0, ok |-> TRUE]
  /\ InitVideo /\ InitExport

Init == InitRec /\ InitFn /\ InitView("raf") /\ InitEdIdle

Spec == Init /\ [][NextRec]_vars

\* The same program with a user who presses START only when no start() is
\* still pending: every behaviour of SpecSeq is a behaviour of Spec.
SeqStartClick(a, w, q) == Phase = "Idle" /\ StartClick(a, w, q)

NextSeq ==
  \/ \E a \in Attempts, w \in BOOLEAN : SeqStartClick(a, w, DefaultConfig)
  \/ \E a \in Attempts : ScreenGranted(a)
  \/ \E a \in Attempts : CamGranted(a)
  \/ \E a \in Attempts : AcquireFail(a)
  \/ \E a \in Attempts : MicGranted(a)
  \/ \E a \in Attempts : EncoderFail(a)
  \/ StopClick
  \/ PauseClick
  \/ ResumeClick
  \/ \E a \in Attempts, size \in {0, 1} : EncoderEmit(a, size)
  \/ \E a \in Attempts, size \in {0, 1} : FlushDeliver(a, size)
  \/ \E t \in 1..(MaxStarts + 1) : TimerTick(t)
  \/ \E c \in 1..(MaxStarts + 1), ok, ready \in BOOLEAN :
       RenderTick(c, ok, ready)

SpecSeq == Init /\ [][NextSeq]_vars

\* ---------------------------------------------------------------- drawCover
\* JavaScript numbers as exact fractions <<numerator, denominator>> with a
\* positive denominator.
Num(n) == <<n, 1>>
RDiv(a, b) == <<a[1] * b[2], a[2] * b[1]>>
RMul(a, b) == <<a[1] * b[1], a[2] * b[2]>>
RAdd(a, b) == <<a[1] * b[2] + b[1] * a[2], a[2] * b[2]>>
RSub(a, b) == <<a[1] * b[2] - b[1] * a[2], a[2] * b[2]>>
RLess(a, b) == a[1] * b[2] < b[1] * a[2]
REq(a, b) == a[1] * b[2] = b[1] * a[2]

\* drawCover with the aspect comparison turned round.
CropRect_Flipped(videoWidth, videoHeight, w, h) ==
  LET imgAspect == RDiv(Num(videoWidth), Num(videoHeight))
      targetAspect == RDiv(Num(w), Num(h))
  IN IF RLess(imgAspect, targetAspect)
     THEN LET sWidth == RMul(Num(videoHeight), targetAspect)
          IN [ sx |-> RDiv(RSub(Num(videoWidth), sWidth), Num(2)),
               sy |-> Num(0), sWidth |-> sWidth,
               sHeight |-> Num(videoHeight) ]
     ELSE LET sHeight == RDiv(Num(videoWidth), targetAspect)
          IN [ sx |-> Num(0),
               sy |-> RDiv(RSub(Num(videoHeight), sHeight), Num(2)),
               sWidth |-> Num(videoWidth), sHeight |-> sHeight ]

\* drawCover's source rectangle (sx, sy, sWidth, sHeight)
CropRect(videoWidth, videoHeight, w, h) ==
  LET imgAspect == RDiv(Num(videoWidth), Num(videoHeight))
      targetAspect == RDiv(Num(w), Num(h))
  IN IF RLess(targetAspect, imgAspect)
     THEN LET sWidth == RMul(Num(videoHeight), targetAspect)
          IN [ sx |-> RDiv(RSub(Num(videoWidth), sWidth), Num(2)),
               sy |-> Num(0), sWidth |-> sWidth,
               sHeight |-> Num(videoHeight) ]
     ELSE LET sHeight == RDiv(Num(videoWidth), targetAspect)
          IN [ sx |-> Num(0),
               sy |-> RDiv(RSub(Num(videoHeight), sHeight), Num(2)),
               sWidth |-> Num(videoWidth), sHeight |-> sHeight ]

\* drawCover(img, x, y, w, h): nothing is drawn while the video has no width
\* or no data; otherwise drawImage(img, sx, sy, sWidth, sHeight, x, y, w, h).
DrawCover ==
  /\ coverIn # NoCall /\ coverOut = NoCall
  /\ coverOut' =
       IF coverIn.videoWidth = 0 \/ ~coverIn.ready THEN [drawn |-> FALSE]
       ELSE [ drawn |-> TRUE,
              src |-> CropRect(coverIn.videoWidth, coverIn.videoHeight,
                               coverIn.w, coverIn.h),
              dst |-> [x |-> coverIn.x, y |-> coverIn.y, w |-> coverIn.w,
                       h |-> coverIn.h] ]
  /\ UNCHANGED <<recVars, edVars, vidVars, exVars, coverIn, playVars, loopVars>>
  /\ UNCHANGED <<drawIn, drawOut>>

\* The calls looked at: a video of any size, ready or not, into any box.
CoverCalls ==
  [ videoWidth : 0..MaxSide, videoHeight : 1..MaxSide, ready : BOOLEAN,
    x : {0, 1}, y : {0, 1}, w : 1..MaxSide, h : 1..MaxSide ]

InitCover ==
  /\ InitRec /\ InitView("raf") /\ InitEdIdle
  /\ coverIn \in CoverCalls /\ coverOut = NoCall
  /\ drawIn = NoCall /\ drawOut = NoCall
  /\ InitLoopVars

NextCover == DrawCover

SpecCover == InitCover /\ [][NextCover]_vars

\* ---------------------------------------------------------------- drawFrame
\* Nothing is painted.
NoDraw == <<>>

\* ctx.drawImage(video, ...) paints only when the element has a current
\* frame (readyState >= 2) and its source rectangle is not empty.
Paints(v) == v.ready /\ v.videoWidth > 0

\* The source rectangle of the five-argument drawImage(img, dx, dy, dw, dh):
\* the whole picture.
WholeRect(v) ==
  [ sx |-> Num(0), sy |-> Num(0), sWidth |-> Num(v.videoWidth),
    sHeight |-> Num(v.videoHeight) ]

\* What drawCover(v, x, y, w, h) paints: the guard is videoWidth === 0 ||
\* readyState < 2 in the requestAnimationFrame recorder and videoWidth === 0
\* in the interval recorder.
CoverOf(var, v, w, h) ==
  IF v.videoWidth = 0 \/ (var = "raf" /\ ~v.ready) THEN NoDraw
  ELSE IF ~Paints(v) THEN NoDraw
  ELSE CropRect(v.videoWidth, v.videoHeight, w, h)

\* CIRCLE's screen draw: drawImage(screenVideo, 0, 0, canvas.width,
\* canvas.height), behind readyState >= 2 in the requestAnimationFrame
\* recorder and unguarded in the interval recorder.
CircleScreen(var, v, w, h) ==
  IF var = "raf" /\ ~v.ready THEN NoDraw
  ELSE IF ~Paints(v) THEN NoDraw
  ELSE WholeRect(v)

\* CIRCLE's overlay block: entered when webcamStream is set (and, in the
\* requestAnimationFrame recorder, webcamVideo.readyState >= 2); clip to the
\* circle, drawCover into the webcamSize x webcamSize box, stroke the white
\* ring.
CircleOverlay(var, on, v) ==
  IF on /\ (var = "raf" => v.ready)
  THEN [camera |-> CoverOf(var, v, 1, 1), ring |-> TRUE]
  ELSE [camera |-> NoDraw, ring |-> FALSE]

\* drawFrame(layout): the black fill, then per layout the screen, the camera
\* or the '#111' placeholder, and the ring or the divider line.  The SHORTS
\* bands are canvas.width x canvas.height / 2.
DrawFrameOf(var, in) ==
  LET w == in.canvas[1]
      h == in.canvas[2]
  IN IF in.layout = "CIRCLE"
     THEN LET o == CircleOverlay(var, in.webcamStream, in.cam)
          IN [ fill |-> "black",
               screen |-> CircleScreen(var, in.screen, w, h),
               camera |-> o.camera, ring |-> o.ring,
               placeholder |-> FALSE, divider |-> FALSE ]
     ELSE [ fill |-> "black",
            screen |-> CoverOf(var, in.screen, 2 * w, h),
            camera |-> IF in.webcamStream
                       THEN CoverOf(var, in.cam, 2 * w, h)
                       ELSE NoDraw,
            ring |-> FALSE,
            placeholder |-> ~in.webcamStream, divider |-> TRUE ]

DrawFrame ==
  /\ drawIn # NoCall /\ drawOut = NoCall
  /\ drawOut' = DrawFrameOf(variant, drawIn)
  /\ UNCHANGED <<recVars, edVars, vidVars, exVars, playVars, loopVars>>
  /\ UNCHANGED <<coverIn, coverOut, drawIn>>

\* The video elements a frame is drawn from: one that has no metadata yet
\* (videoWidth 0, readyState < 2), and pictures of the landscape canvas's
\* shape or narrower, with a current frame or with metadata only.
FrameVideos ==
  {[videoWidth |-> 0, videoHeight |-> 0, ready |-> FALSE]}
    \cup [ videoWidth : {1024, 1920}, videoHeight : {768, 1080},
           ready : BOOLEAN ]

\* The draw calls looked at: a layout on the canvas start() sets up for it,
\* with or without webcamStream.
FrameCalls ==
  { [ layout |-> q.layout, canvas |-> CanvasFor(q), webcamStream |-> on,
      screen |-> sv, cam |-> cv ] :
      q \in [layout : {"CIRCLE", "SHORTS"}, fps : {30},
             resolution : {"720p", "1080p"}],
      on \in BOOLEAN, sv \in FrameVideos, cv \in FrameVideos }

InitFrame ==
  /\ InitRec /\ (\E v \in Variants : InitView(v)) /\ InitEdIdle
  /\ coverIn = NoCall /\ coverOut = NoCall
  /\ drawIn \in FrameCalls /\ drawOut = NoCall
  /\ InitLoopVars

NextFrame == DrawFrame

SpecFrame == InitFrame /\ [][NextFrame]_vars

\* --------------------------------------------------------- renderLoop timing
\* Times are in thirds of a millisecond, so that 1000 / 30 ms is a whole
\* number of units.
TicksPerMs == 3

\* The clock is followed up to this time.
MaxLoopClock == 400

\* The time that passes between two events.
LoopSteps == {40, 70, 130}

\* How far the timestamp handed to a requestAnimationFrame callback lies
\* before performance.now() at the time the callback runs.
LoopSkews == {0, 10}

\* const interval = 1000 / this.targetFps
IntervalT(fps) == (1000 * TicksPerMs) \div fps

\* const now = time || performance.now(): a call without a time, or with time
\* 0, reads the clock.
LoopNow(time) == IF time = 0 THEN loopClock ELSE time

\* A lastFrameTime that is left where it was.
NextFrameTime_Unchanged(t, dt, interval) == t - dt

\* this.lastFrameTime = now - (elapsed % interval), dt being elapsed
NextFrameTime(t, dt, interval) == t - (dt % interval)

\* The body of renderLoop(time) up to its requestAnimationFrame: drawFrame is
\* invoked when elapsed >= interval; when it returns (ok) the frame is drawn
\* and lastFrameTime moves, when it throws the catch leaves lastFrameTime as
\* it was.
RenderLoopBody(time, ok) ==
  LET t == LoopNow(time)
      dt == t - lastFrameTime
      interval == IntervalT(targetFps)
      due == dt >= interval
  IN /\ loopCall' = [now |-> t, elapsed |-> dt, invoked |-> due,
                     drew |-> due /\ ok]
     /\ IF due /\ ok
        THEN /\ loopFrames' = loopFrames + 1
             /\ lastFrameTime' = NextFrameTime(t, dt, interval)
        ELSE UNCHANGED <<loopFrames, lastFrameTime>>

\* start(): this.lastFrameTime = performance.now(); this.renderLoop()
LoopStart ==
  /\ loopPc = "idle"
  /\ loopPc' = "running" /\ loopStart' = loopClock
  /\ loopFrames' = 0 /\ lastFrameTime' = loopClock
  /\ loopCall' = [now |-> loopClock, elapsed |-> 0, invoked |-> FALSE,
                  drew |-> FALSE]
  /\ UNCHANGED loopClock
  /\ UNCHANGED <<recVars, edVars, vidVars, exVars, playVars>>
  /\ UNCHANGED <<coverIn, coverOut, drawIn, drawOut>>

\* A requestAnimationFrame callback: renderLoop(time) with the timestamp of
\* the frame, which is not later than the clock.
LoopCallback(skew, ok) ==
  /\ loopPc = "running"
  /\ RenderLoopBody(IF loopClock > skew THEN loopClock - skew ELSE 0, ok)
  /\ UNCHANGED <<loopClock, loopStart, loopPc>>
  /\ UNCHANGED <<recVars, edVars, vidVars, exVars, playVars>>
  /\ UNCHANGED <<coverIn, coverOut, drawIn, drawOut>>

\* pause(): cancelAnimationFrame(this.animationFrameId)
LoopPause ==
  /\ loopPc = "running"
  /\ loopPc' = "paused"
  /\ UNCHANGED <<loopClock, lastFrameTime, loopStart, loopFrames, loopCall>>
  /\ UNCHANGED <<recVars, edVars, vidVars, exVars, playVars>>
  /\ UNCHANGED <<coverIn, coverOut, drawIn, drawOut>>

\* resume(): this.lastFrameTime = performance.now(); this.renderLoop()
LoopResume ==
  /\ loopPc = "paused"
  /\ loopPc' = "running" /\ lastFrameTime' = loopClock
  /\ loopCall' = [now |-> loopClock, elapsed |-> 0, invoked |-> FALSE,
                  drew |-> FALSE]
  /\ UNCHANGED <<loopClock, loopStart, loopFrames>>
  /\ UNCHANGED <<recVars, edVars, vidVars, exVars, playVars>>
  /\ UNCHANGED <<coverIn, coverOut, drawIn, drawOut>>

\* Time passes.
LoopAdvance(d) ==
  /\ loopClock + d <= MaxLoopClock
  /\ loopClock' = loopClock + d
  /\ UNCHANGED <<lastFrameTime, loopStart, loopFrames, loopPc, loopCall>>
  /\ UNCHANGED <<recVars, edVars, vidVars, exVars, playVars>>
  /\ UNCHANGED <<coverIn, coverOut, drawIn, drawOut>>

NextLoop ==
  \/ LoopStart
  \/ \E skew \in LoopSkews, ok \in BOOLEAN : LoopCallback(skew, ok)
  \/ LoopPause
  \/ LoopResume
  \/ \E d \in LoopSteps : LoopAdvance(d)

SpecLoop == Init /\ [][NextLoop]_vars

\* ------------------------------------------------------------- wall clock
\* Time passes.
ClockTick ==
  /\ now < MaxClock
  /\ now' = now + 1
  /\ UNCHANGED <<edVars, vidVars, exVars, viewVars, fnVars, playVars, loopVars>>
  /\ UNCHANGED <<isRecording, isPaused, elapsed, timerRef, sessions,
                 mediaRecorder, chunks, screenStream, webcamStream,
                 audioStream, animationFrameId, pc, useCam, encoder, flushQ,
                 tracks, timers, loops, emitted, blobOf, last>>

\* One recording after another while the clock runs.
NextIds ==
  \/ NextSeq
  \/ ClockTick

SpecIds == Init /\ [][NextIds]_vars

\* ----------------------------------------------- layout and overlay position
\* The layout buttons: onClick={() => setLayout(l)} disabled={isRecording}
SelectLayout(l) ==
  /\ ~isRecording
  /\ layout # l
  /\ layout' = l
  /\ last' = [op |-> "layout", a |-> 0, phase |-> Phase, frame |-> NoFrame]
  /\ UNCHANGED <<edVars, vidVars, exVars, now, fnVars, playVars, loopVars>>
  /\ UNCHANGED <<variant, currentLayout, targetFps, canvasSize, startCfg,
                 loopCfg, webcamPos, isDraggingWebcam>>
  /\ UNCHANGED <<isRecording, isPaused, elapsed, timerRef, sessions,
                 mediaRecorder, chunks, screenStream, webcamStream,
                 audioStream, animationFrameId, pc, useCam, encoder, flushQ,
                 tracks, timers, loops, emitted, blobOf>>

\* handleCanvasInteraction returns at once unless a recording is on in the
\* CIRCLE layout.
CanvasInteraction(drag, pos) ==
  /\ isRecording /\ layout = "CIRCLE"
  /\ isDraggingWebcam' = drag
  /\ webcamPos' = pos
  /\ last' = [op |-> "pointer", a |-> 0, phase |-> Phase, frame |-> NoFrame]
  /\ UNCHANGED <<edVars, vidVars, exVars, now, fnVars, playVars, loopVars>>
  /\ UNCHANGED <<variant, layout, currentLayout, targetFps, canvasSize,
                 startCfg, loopCfg>>
  /\ UNCHANGED <<isRecording, isPaused, elapsed, timerRef, sessions,
                 mediaRecorder, chunks, screenStream, webcamStream,
                 audioStream, animationFrameId, pc, useCam, encoder, flushQ,
                 tracks, timers, loops, emitted, blobOf>>

\* mousedown / touchstart
CanvasDown == ~isDraggingWebcam /\ CanvasInteraction(TRUE, webcamPos)

\* mouseup (a touchend has no e.touches[0] left and throws before the flag
\* is cleared; mouseleave matches no branch)
CanvasUp == isDraggingWebcam /\ CanvasInteraction(FALSE, webcamPos)

\* mousemove / touchmove while dragging; relX and relY are percentages of
\* the container and leave 0..100 when the pointer leaves it.
CanvasMove(relX, relY) ==
  /\ isDraggingWebcam
  /\ CanvasInteraction(TRUE, UpdateWebcamPos(relX, relY))

\* Pointer positions: left of the container, and below it.
PointerPoints == { <<0 - 20, 40>>, <<40, 120>> }

\* One recording after another, with either recorder and any layout and
\* quality.
InitViews == InitRec /\ InitFn /\ (\E v \in Variants : InitView(v)) /\ InitEdIdle

NextView ==
  \/ \E l \in {"CIRCLE", "SHORTS"} : SelectLayout(l)
  \/ \E a \in Attempts, w \in BOOLEAN, q \in Configs : SeqStartClick(a, w, q)
  \/ \E a \in Attempts : ScreenGranted(a)
  \/ \E a \in Attempts : CamGranted(a)
  \/ \E a \in Attempts : AcquireFail(a)
  \/ \E a \in Attempts : MicGranted(a)
  \/ \E a \in Attempts : EncoderFail(a)
  \/ StopClick
  \/ PauseClick
  \/ ResumeClick
  \/ \E a \in Attempts, size \in {0, 1} : EncoderEmit(a, size)
  \/ \E a \in Attempts, size \in {0, 1} : FlushDeliver(a, size)
  \/ \E t \in 1..(MaxStarts + 1) : TimerTick(t)
  \/ \E c \in 1..(MaxStarts + 1), ok, ready \in BOOLEAN :
       RenderTick(c, ok, ready)

SpecView == InitViews /\ [][NextView]_vars

\* The same on the requestAnimationFrame recorder, with the overlay dragged
\* over the preview.
NextDrag ==
  \/ NextView
  \/ CanvasDown
  \/ CanvasUp
  \/ \E p \in PointerPoints : CanvasMove(p[1], p[2])

SpecDrag == Init /\ [][NextDrag]_vars

\* ---------------------------------------------------------------- exportVid
\* Playback moves the source position in steps of half a guard distance.
PlayStepMs == GuardMs \div 2

\* The length of the recorded media: the session's durationSeconds.
MediaLen(d) == d * MsPerSec

\* v.ended: playback has reached the end of the media
VideoEnded(t, d) == t >= MediaLen(d)

\* checkEnd's test: v.currentTime >= s.end - 0.05 || v.ended
SegmentDone(s, t, d) == t >= s.end - EndSlackMs \/ VideoEnded(t, d)

\* Math.floor((playedDuration / totalDuration) * 100), playedDuration being
\* the durations of the segments before currentSegIdx plus v.currentTime -
\* s.start
ProgressAt(segs, idx, t) ==
  ((SumTo(segs, idx) + (t - segs[idx + 1].start)) * 100)
    \div totalDuration(segs)

\* RenderLoop that seeks to s.start but never calls v.play().
RenderLoop_NoPlay(segs, idx) ==
  IF idx >= Len(segs)
  THEN /\ rec' = "inactive" /\ exPc' = "stopping"
       /\ vPlaying' = FALSE
       /\ UNCHANGED <<vTime, vSeeking>>
  ELSE /\ vTime' = segs[idx + 1].start
       /\ vSeeking' = TRUE /\ vPlaying' = FALSE
       /\ rec' = "recording" /\ exPc' = "frame"

\* renderLoop with currentSegIdx = idx, after the caller's v.pause(): past the
\* last segment it stops the encoder; otherwise it sets v.currentTime =
\* s.start (a seek), plays, and requests the first checkEnd frame.
RenderLoop(segs, idx) ==
  IF idx >= Len(segs)
  THEN /\ rec' = "inactive" /\ exPc' = "stopping"
       /\ vPlaying' = FALSE
       /\ UNCHANGED <<vTime, vSeeking>>
  ELSE /\ vTime' = segs[idx + 1].start
       /\ vSeeking' = TRUE /\ vPlaying' = TRUE
       /\ rec' = "recording" /\ exPc' = "frame"

\* RENDER FINAL MASTER (disabled while isExporting): exportVid up to its
\* first requestAnimationFrame.
ExportClick ==
  /\ exPc = "idle" /\ ~isExporting
  /\ isExporting' = TRUE /\ exportProgress' = 0
  /\ exSegs' = segments /\ currentSegIdx' = 0
  /\ lastDraw' = [seg |-> 0, t |-> 0] /\ framesDrawn' = 0
  /\ RenderLoop(segments, 0)
  /\ lastOp' = [op |-> "export", idx |-> 0, ok |-> TRUE]
  /\ UNCHANGED <<durationSeconds, segments, currentTime, vShown>>
  /\ UNCHANGED <<recVars, fnVars, playVars, loopVars>>

\* A checkEnd animation frame.  While the element is seeking, drawImage
\* gives the frame it still shows, or nothing when it has none (shows).
CheckEnd(shows) ==
  /\ exPc = "frame"
  /\ LET s == exSegs[currentSegIdx + 1]
     IN IF SegmentDone(s, vTime, durationSeconds)
        THEN /\ currentSegIdx' = currentSegIdx + 1
             /\ RenderLoop(exSegs, currentSegIdx + 1)
             /\ UNCHANGED <<exportProgress, lastDraw, framesDrawn>>
        ELSE /\ framesDrawn < MaxFrames
             /\ IF vSeeking /\ ~shows
                THEN UNCHANGED <<lastDraw, framesDrawn>>
                ELSE /\ lastDraw' = [seg |-> currentSegIdx + 1, t |-> vShown]
                     /\ framesDrawn' = framesDrawn + 1
             /\ exportProgress' = ProgressAt(exSegs, currentSegIdx, vTime)
             /\ UNCHANGED <<currentSegIdx, rec, exPc, vTime, vSeeking,
                            vPlaying>>
  /\ UNCHANGED <<isExporting, exSegs, vShown>>
  /\ UNCHANGED <<durationSeconds, segments, currentTime, lastOp>>
  /\ UNCHANGED <<recVars, fnVars, playVars, loopVars>>

\* The element plays: the position advances and the frame shown follows it;
\* reaching the end of the media pauses the element.  (onTimeUpdate's
\* updateCurrentTime returns at once while isExporting.)
PlayAdvance ==
  /\ vPlaying /\ ~vSeeking /\ ~VideoEnded(vTime, durationSeconds)
  /\ vTime' = IF vTime + PlayStepMs > MediaLen(durationSeconds)
              THEN MediaLen(durationSeconds) ELSE vTime + PlayStepMs
  /\ vShown' = vTime'
  /\ vPlaying' = ~VideoEnded(vTime', durationSeconds)
  /\ UNCHANGED <<durationSeconds, segments, currentTime, lastOp, vSeeking>>
  /\ UNCHANGED exVars
  /\ UNCHANGED <<recVars, fnVars, playVars, loopVars>>

\* A seek completes: the element shows the frame of its position.
SeekDone ==
  /\ vSeeking
  /\ vSeeking' = FALSE /\ vShown' = vTime
  /\ UNCHANGED <<vPlaying, edVars>>
  /\ UNCHANGED exVars
  /\ UNCHANGED <<recVars, fnVars, playVars, loopVars>>

\* rec.onstop: the blob of the chunks collected (the encoder's only
\* dataavailable, kept when its size is positive) goes to onSave, which
\* saves { ...editingSession, id, videoBlob }, closes the editor, and then
\* setIsExporting(false).
RecOnStop(size) ==
  /\ exPc = "stopping"
  /\ sessions' = Append(sessions,
                        [id |-> EditedId(now),
                         durationSeconds |-> durationSeconds,
                         videoBlob |-> IF size > 0 THEN << <<0, 1>> >>
                                       ELSE <<>>])
  /\ isExporting' = FALSE /\ exPc' = "closed"
  /\ UNCHANGED <<exportProgress, exSegs, currentSegIdx, rec, lastDraw,
                 framesDrawn>>
  /\ UNCHANGED <<edVars, vidVars>>
  /\ UNCHANGED <<isRecording, isPaused, elapsed, timerRef, mediaRecorder,
                 chunks, screenStream, webcamStream, audioStream,
                 animationFrameId, pc, useCam, encoder, flushQ, tracks,
                 timers, loops, emitted, blobOf, last>>
  /\ UNCHANGED <<viewVars, now, fnVars, playVars, loopVars>>

\* The timelines an export is started on: the seed, the seed split once,
\* the two pieces exchanged, and the seed deleted.
ExTimelines(d) ==
  LET seed == Seed(d)
      cuts == {c \in ScrubGrid : /\ IsScrubTarget(c, totalDuration(seed))
                                 /\ SplitAccepted(seed, c)}
      splits == {SplitResult(seed, c) : c \in cuts}
  IN {seed} \cup splits \cup {MoveResult(sp, 1, 2) : sp \in splits}
       \cup {DeleteResult(seed, 1)}

InitEx ==
  /\ InitRec /\ InitFn /\ InitView("raf")
  /\ durationSeconds \in 0..MaxDuration
  /\ segments \in ExTimelines(durationSeconds)
  /\ currentTime = 0 /\ vTime = 0
  /\ lastOp = [op |-> "open", idx |-> 0, ok |-> TRUE]
  /\ InitVideo /\ InitExport

\* The timeline stays clickable during an export; the editor is gone once
\* onSave has closed it.  The user scrubs at most once while an export runs.
ExScrub(target) ==
  /\ exPc # "closed"
  /\ isExporting => lastOp.op = "export"
  /\ Scrub(target)

NextEx ==
  \/ \E target \in ScrubGrid : ExScrub(target)
  \/ ExportClick
  \/ \E shows \in BOOLEAN : CheckEnd(shows)
  \/ PlayAdvance
  \/ SeekDone
  \/ \E size \in {0, 1} : RecOnStop(size)

SpecEx == InitEx /\ [][NextEx]_vars

\* An export nobody interferes with: animation frames keep coming, seeks
\* complete, playback advances, and the encoder's stop event is delivered.
NextExRun ==
  \/ ExportClick
  \/ \E shows \in BOOLEAN : CheckEnd(shows)
  \/ PlayAdvance
  \/ SeekDone
  \/ \E size \in {0, 1} : RecOnStop(size)

SpecExLive ==
  /\ InitEx /\ [][NextExRun]_vars
  /\ WF_vars(\E shows \in BOOLEAN : CheckEnd(shows))
  /\ WF_vars(PlayAdvance)
  /\ WF_vars(SeekDone)
  /\ WF_vars(\E size \in {0, 1} : RecOnStop(size))

\* ------------------------------------------------------ preview playback
\* updateCurrentTime's scan: the first segment, in timeline order, with
\* v.currentTime >= s.start && v.currentTime <= s.end + 0.05
PlayIdx(segs, t) ==
  FirstIdx({i \in 1..Len(segs) :
              t >= segs[i].start /\ t <= segs[i].end + EndSlackMs})

\* The play button: pause() when isPlaying, play() otherwise, then
\* setIsPlaying(!isPlaying).  play() on an element that has reached the end
\* of the media starts over from 0 (a seek).
PlayClick ==
  /\ lastOp.op # "closed" /\ exPc # "closed"
  /\ IF isPlaying
     THEN vPlaying' = FALSE /\ UNCHANGED <<vTime, vSeeking>>
     ELSE /\ vPlaying' = TRUE
          /\ IF VideoEnded(vTime, durationSeconds)
             THEN vTime' = 0 /\ vSeeking' = TRUE
             ELSE UNCHANGED <<vTime, vSeeking>>
  /\ isPlaying' = ~isPlaying
  /\ lastOp' = [op |-> "play", idx |-> 0, ok |-> TRUE]
  /\ UNCHANGED <<durationSeconds, segments, currentTime, vShown>>
  /\ UNCHANGED exVars
  /\ UNCHANGED <<recVars, fnVars, loopVars>>

\* A jump that skips the seek to the next segment.
PlayJump_Stay(segs, i, t) == t

\* updateCurrentTime at the end of segment i < segments.length - 1:
\* v.currentTime = segments[i + 1].start
PlayJump(segs, i, t) == segs[i + 1].start

\* onTimeUpdate = updateCurrentTime (the element fires timeupdate while it
\* plays, when a seek has completed, when it is paused and when it ends):
\* returns while isExporting; for the first segment holding v.currentTime
\* sets the playhead to acc + offset and, when isPlaying and within 0.05 s of
\* the segment's end, seeks to the next segment's start or, after the last
\* one, pauses and sets the playhead to totalDuration.
TimeUpdate ==
  /\ lastOp.op # "closed" /\ exPc # "closed"
  /\ ~isExporting /\ ~vSeeking
  /\ LET i == PlayIdx(segments, vTime)
     IN IF i = 0
        THEN UNCHANGED <<currentTime, vTime, vSeeking, vPlaying, isPlaying>>
        ELSE LET s == segments[i]
                 pos == SumTo(segments, i - 1) + (vTime - s.start)
             IN IF isPlaying /\ vTime >= s.end - EndSlackMs
                THEN IF i < Len(segments)
                     THEN /\ vTime' = PlayJump(segments, i, vTime)
                          /\ vSeeking' = TRUE
                          /\ currentTime' = pos
                          /\ UNCHANGED <<vPlaying, isPlaying>>
                     ELSE /\ vPlaying' = FALSE /\ isPlaying' = FALSE
                          /\ currentTime' = totalDuration(segments)
                          /\ UNCHANGED <<vTime, vSeeking>>
                ELSE /\ currentTime' = pos
                     /\ UNCHANGED <<vTime, vSeeking, vPlaying, isPlaying>>
  /\ lastOp' = [op |-> "timeupdate", idx |-> PlayIdx(segments, vTime),
                ok |-> TRUE]
  /\ UNCHANGED <<durationSeconds, segments, vShown>>
  /\ UNCHANGED exVars
  /\ UNCHANGED <<recVars, fnVars, loopVars>>

\* The editor with its preview, on the timelines of ExTimelines with the
\* playhead and the video at 0: the playhead is placed while the preview is
\* paused, and the timeline is played with the play button.
NextPlay ==
  \/ ~isPlaying /\ \E target \in ScrubGrid : Scrub(target)
  \/ PlayClick
  \/ TimeUpdate
  \/ PlayAdvance
  \/ SeekDone

SpecPlay == InitEx /\ [][NextPlay]_vars

\* A preview nobody pauses: the element keeps playing, its seeks complete and
\* its timeupdate events are delivered.
NextPlayRun ==
  \/ ~isPlaying /\ \E target \in ScrubGrid : Scrub(target)
  \/ ~isPlaying /\ PlayClick
  \/ TimeUpdate
  \/ PlayAdvance
  \/ SeekDone

SpecPlayLive ==
  /\ InitEx /\ [][NextPlayRun]_vars
  /\ WF_vars(TimeUpdate)
  /\ WF_vars(PlayAdvance)
  /\ WF_vars(SeekDone)

\* ------------------------------------------------- claims on the recording
\* C1: the buffer stop() returns for a recording is the concatenation, in
\* emission order, of every non-empty chunk that recording's encoder emits,
\* the chunk of the final flush included: once the buffer is assembled no
\* further chunk of the recording is delivered.
C1_BufferHoldsEveryChunk ==
  \A a \in Attempts : blobOf[a][1] = "blob" => blobOf[a][2] = emitted[a]

\* C2: when a failed start() reports its error the session is Idle (not
\* recording, no render loop, no elapsed timer) and every capture stream that
\* start() acquired (screen, camera, microphone) has its tracks stopped.
C2_FailedStartIdleAndReleased ==
  last.op = "startFailed" =>
    /\ ~isRecording /\ loops = {} /\ timers = {}
    /\ \A k \in {"screen", "cam", "mic"} : tracks[k][last.a] # "live"

\* C3: after stop() returns from Recording or Paused, the screen, camera and
\* microphone streams acquired by the matching start() are all released.
C3_StopReleasesEverySource ==
  (last.op = "stop" /\ last.a # 0 /\ last.phase \in {"Recording", "Paused"}) =>
    \A k \in {"screen", "cam", "mic"} : tracks[k][last.a] # "live"

\* C4: recorder.start() is invoked only while Idle, pause() only while
\* Recording, resume() only while Paused, stop() only while Recording or
\* Paused.
C4_CallsFollowStateMachine ==
  /\ last.op = "start" => last.phase = "Idle"
  /\ last.op = "pause" => last.phase = "Recording"
  /\ last.op = "resume" => last.phase = "Paused"
  /\ last.op = "stop" => last.phase \in {"Recording", "Paused"}

\* ---------------------------------------------------- claims on the editor
\* The half-open cumulative range of segment k contains virtual time t.
InSegment(segs, t, k) == SumTo(segs, k - 1) <= t /\ t < SumTo(segs, k)

\* C5: split and moveSegment leave the total virtual duration unchanged, and
\* a delete decreases it by exactly the deleted segment's duration.
C5_DurationUnderEdits ==
  [][ /\ lastOp'.op \in {"split", "move"} =>
           totalDuration(segments') = totalDuration(segments)
      /\ lastOp'.op = "delete" =>
           totalDuration(segments') =
             totalDuration(segments) - segments[lastOp'.idx].duration
    ]_vars

\* C5's case: a timeline that was split, had segments exchanged and one
\* deleted.
C5_Witness ==
  /\ lastOp.op = "delete" /\ Len(segments) = 2
  /\ segments[1].start > segments[2].start
  /\ totalDuration(segments) < durationSeconds * MsPerSec

\* C6: the timeline always holds at least one segment (deleting the sole
\* remaining segment is rejected).
C6_AtLeastOneSegment == Len(segments) >= 1

C8_SplitPartitionsInPlace ==
  [][ (lastOp'.op = "split" /\ lastOp'.ok) =>
        /\ \E k \in 1..Len(segments) : InSegment(segments, currentTime, k)
        /\ LET k == CHOOSE j \in 1..Len(segments) :
                      InSegment(segments, currentTime, j)
               s == segments[k]
               o == currentTime - SumTo(segments, k - 1)
           IN /\ Len(segments') = Len(segments) + 1
              /\ \A j \in 1..(k - 1) : segments'[j] = segments[j]
              /\ \A j \in (k + 1)..Len(segments) : segments'[j + 1] = segments[j]
              /\ segments'[k].start = s.start
              /\ segments'[k].end = s.start + o
              /\ segments'[k].duration = o
              /\ segments'[k + 1].start = s.start + o
              /\ segments'[k + 1].end = s.end
              /\ segments'[k + 1].duration = s.duration - o
              /\ segments'[k].duration + segments'[k + 1].duration = s.duration
    ]_vars

\* C8's case: an accepted split of the second segment of a timeline, which
\* leaves three segments.
C8_Witness ==
  /\ lastOp.op = "split" /\ lastOp.ok /\ lastOp.idx = 2
  /\ Len(segments) = 3

\* The playhead is in no segment, or the segment that contains it has an
\* edge at distance at most d (inclusive) or less than d (not inclusive) from
\* the playhead.
NearEdge(segs, t, d, inclusive) ==
  \/ ~ \E k \in 1..Len(segs) : InSegment(segs, t, k)
  \/ \E k \in 1..Len(segs) :
       /\ InSegment(segs, t, k)
       /\ LET o == t - SumTo(segs, k - 1)
          IN IF inclusive
             THEN o <= d \/ segs[k].duration - o <= d
             ELSE o < d \/ segs[k].duration - o < d

C10_SegmentsWellFormed ==
  \A i \in 1..Len(segments) :
    /\ segments[i].end > segments[i].start
    /\ segments[i].duration = segments[i].end - segments[i].start

\* C11: for every virtual time t with 0 <= t < total, seekToVirtualTime(t)
\* positions the source at segments[k].start + (t - sum of the durations
\* before k), k being the index whose half-open cumulative range contains t;
\* for t outside [0, total) neither the source position nor the virtual
\* playhead changes.  (scrub is the caller that passes an arbitrary t.)
C11_SeekMapsHalfOpenRange ==
  [][ \A t \in ScrubGrid :
        Scrub(t) =>
          IF t < totalDuration(segments)
          THEN \A k \in 1..Len(segments) :
                 InSegment(segments, t, k) =>
                   vTime' = segments[k].start + (t - SumTo(segments, k - 1))
          ELSE vTime' = vTime /\ currentTime' = currentTime
    ]_vars

\* ---------------------------------------------------- claims on the export
\* C12: export walks the segments strictly in timeline order, one at a time:
\* the segment index only ever moves to the next one (nothing skipped,
\* nothing visited twice), every frame is drawn for the segment in process,
\* source times drawn within one segment are non-decreasing, and the encoder
\* is finalized only after the last segment.
C12_ExportWalksInOrder ==
  [][ /\ (isExporting /\ isExporting') =>
           /\ currentSegIdx' \in {currentSegIdx, currentSegIdx + 1}
           /\ lastDraw' # lastDraw => lastDraw'.seg = currentSegIdx + 1
           /\ (lastDraw.seg # 0 /\ lastDraw'.seg = lastDraw.seg) =>
                lastDraw'.t >= lastDraw.t
      /\ (rec' = "inactive" /\ rec # "inactive") =>
           currentSegIdx' = Len(exSegs')
    ]_vars

\* C13: every frame drawn onto the export surface while segment s is being
\* processed is a source frame whose time lies in [s.start, s.end].
C13_FramesWithinSegment ==
  lastDraw.seg # 0 =>
    /\ exSegs[lastDraw.seg].start <= lastDraw.t
    /\ lastDraw.t <= exSegs[lastDraw.seg].end

\* floor(segment.duration * f) summed over the first n segments
RECURSIVE FramesTo(_, _)
FramesTo(segs, n) ==
  IF n = 0 THEN 0
  ELSE FramesTo(segs, n - 1) + (segs[n].duration * Fps) \div MsPerSec

\* C14: when the export has walked its timeline, the number of frames it drew
\* equals the sum over the segments of floor(segment.duration * f), f = 30.
C14_FrameCountIsDurationTimesRate ==
  exPc \in {"stopping", "closed"} =>
    framesDrawn = FramesTo(exSegs, Len(exSegs))

\* The export is over: the encoder finalized after the last segment, one
\* session handed to the store, isExporting false again.
ExportCompleted ==
  /\ rec = "inactive" /\ currentSegIdx = Len(exSegs)
  /\ Len(sessions) = 1
  /\ ~isExporting /\ exPc = "closed"

\* C15: once started, an export nobody interferes with runs to completion:
\* the encoder is eventually finalized after the last segment, exactly one new
\* session is handed to the record store, and isExporting returns to false.
C15_ExportRunsToCompletion ==
  /\ [](Len(sessions) <= 1)
  /\ isExporting ~> ExportCompleted

\* C15's case: a two-segment timeline was exported to its end, with frames
\* drawn on the way.
C15_Witness ==
  ExportCompleted /\ Len(exSegs) = 2 /\ framesDrawn > 0

\* C16: the progress value reported during one export never decreases from
\* one report to the next and stays within 0..100.
C16_ProgressMonotone ==
  [][ (isExporting /\ isExporting') =>
        /\ exportProgress' >= exportProgress
        /\ exportProgress' \in 0..100
    ]_vars


\* C17: while the session is Paused no composited frame is drawn, pause()
\* and resume() leave every capture track and stream field as it was, and
\* through Recording and Paused the screen and microphone streams of the
\* running recorder are set and their tracks are live.
InSession == Phase \in {"Recording", "Paused"}

C17_PauseKeepsSourcesDrawsNothing ==
  [][ /\ (last'.op = "frame" /\ last' # last => last'.phase # "Paused")
      /\ (last'.op \in {"pause", "resume"} /\ last' # last
            => UNCHANGED <<tracks, screenStream, webcamStream, audioStream>>)
      /\ (InSession'
            => /\ screenStream' # 0 /\ audioStream' # 0
               /\ tracks'["screen"][screenStream'] = "live"
               /\ tracks'["mic"][audioStream'] = "live") ]_vars

\* C19: the elapsed-seconds counter advances only in Recording, never
\* decreases between two states of one session, is left as it is by pause and
\* by resume, and is the durationSeconds of the session stop saves.
C19_ElapsedCounter ==
  [][ /\ (elapsed' > elapsed => Phase = "Recording")
      /\ (InSession /\ InSession' => elapsed' >= elapsed)
      /\ (last'.op \in {"pause", "resume"} /\ last' # last
            => elapsed' = elapsed)
      /\ (last'.op = "stop" /\ Len(sessions') > Len(sessions)
            => sessions'[Len(sessions')].durationSeconds = elapsed) ]_vars


\* C18: every frame a recording draws, before or after any pause and resume,
\* has the layout, the tick interval (1000 ms / fps) and the canvas size of
\* the start() call that began the recording.
C18_ResumeKeepsLayoutAndRate ==
  last.op = "frame" /\ mediaRecorder # 0
    => LET q == startCfg[mediaRecorder]
       IN /\ last.frame.layout = q.layout
          /\ last.frame.delay = IntervalUs(q.fps)
          /\ last.frame.canvas = CanvasFor(q)


\* C20: the overlay position always has 0 <= x <= 100 and 0 <= y <= 100, it
\* changes only in a step taken while a recording is on, and a frame that
\* shows the overlay shows it at the position as it is then.
InRange(pos) == pos.x \in 0..100 /\ pos.y \in 0..100

C20_OverlayPositionClamped ==
  [][ /\ InRange(webcamPos) /\ InRange(webcamPos')
      /\ (webcamPos' # webcamPos => isRecording)
      /\ (last'.op = "frame" /\ last'.frame.overlay # NoOverlay
            => last'.frame.overlay = webcamPos') ]_vars

\* A pointer left of the preview at 40% of its height moved the overlay to
\* the left edge, and the next frame shows it there.
C20_Witness ==
  /\ last.op = "frame" /\ last.phase = "Recording"
  /\ webcamPos = [x |-> 0, y |-> 40]
  /\ last.frame.overlay = webcamPos


\* C21: every saved session carries a video buffer made of at least one
\* chunk (chunks are kept only when their size is positive), whether
\* stopRecording or the editor's export saved it.
C21_SavedSessionHasChunk ==
  \A i \in 1..Len(sessions) : Len(sessions[i].videoBlob) >= 1


\* C22: any two saved sessions have different ids, so no save replaces a
\* record that is already in the store.
C22_SavedIdsDistinct ==
  \A i, j \in 1..Len(sessions) : i # j => sessions[i].id # sessions[j].id


\* C23 as stated: a draw error is caught, and it leaves every render loop
\* live; a loop ends only in a step of pause() or stop().
LoopEnders == {"pause", "stop", "startFailed"}

C23_DrawErrorCaughtLoopGoesOn ==
  [][ /\ last'.op # "frameThrew"
      /\ (last'.op = "frameError" => loops' = loops)
      /\ (\A c \in loops : c \notin loops' => last'.op \in LoopEnders) ]_vars

\* C23 as amended: a draw error, caught or thrown out of the callback,
\* leaves every render loop live; a loop ends only in a step of pause() or
\* stop() (start()'s failure handler calls stop()).
C23_DrawErrorLoopGoesOn ==
  [][ /\ (last'.op \in {"frameError", "frameThrew"} => loops' = loops)
      /\ (\A c \in loops : c \notin loops' => last'.op \in LoopEnders) ]_vars

\* A draw failed while recording and the loop is still live.
C23_Witness ==
  /\ last.op \in {"frameError", "frameThrew"} /\ last.phase = "Recording"
  /\ loops # {}


\* C24: when drawCover draws, the source rectangle lies inside the video, is
\* centred, has the aspect ratio of the destination box, keeps the full
\* height of a video wider than the box and the full width otherwise, and
\* the destination rectangle is the whole box.
C24_CoverCropInsideCentred ==
  (coverOut # NoCall /\ coverOut.drawn)
    => LET r == coverOut.src
           vw == Num(coverIn.videoWidth)
           vh == Num(coverIn.videoHeight)
           wider == coverIn.videoWidth * coverIn.h
                      > coverIn.videoHeight * coverIn.w
       IN /\ ~RLess(r.sx, Num(0)) /\ ~RLess(r.sy, Num(0))
          /\ ~RLess(vw, RAdd(r.sx, r.sWidth))
          /\ ~RLess(vh, RAdd(r.sy, r.sHeight))
          /\ REq(RAdd(RAdd(r.sx, r.sx), r.sWidth), vw)
          /\ REq(RAdd(RAdd(r.sy, r.sy), r.sHeight), vh)
          /\ REq(RMul(r.sWidth, Num(coverIn.h)),
                 RMul(r.sHeight, Num(coverIn.w)))
          /\ (wider => REq(r.sHeight, vh))
          /\ (~wider => REq(r.sWidth, vw))
          /\ coverOut.dst = [x |-> coverIn.x, y |-> coverIn.y,
                             w |-> coverIn.w, h |-> coverIn.h]

\* A 3 x 1 video was drawn into a 1 x 2 box: the crop is narrower than the
\* video and as high.
C24_Witness ==
  /\ coverOut # NoCall /\ coverOut.drawn
  /\ coverIn.videoWidth = 3 /\ coverIn.videoHeight = 1
  /\ coverIn.w = 1 /\ coverIn.h = 2
  /\ RLess(coverOut.src.sWidth, Num(3)) /\ RLess(Num(0), coverOut.src.sx)


\* C25: moveSegment(idx, dir) exchanges the segments at idx and idx + dir
\* and leaves every other position as it was; when idx + dir is outside the
\* list the list is unchanged.
C25_MoveExchangesNeighbours ==
  [][ \A idx \in 1..MaxSegments, dir \in {-1, 1} :
        MoveSegment(idx, dir)
          => LET target == idx + dir
             IN IF target \in 1..Len(segments)
                THEN /\ Len(segments') = Len(segments)
                     /\ segments'[idx] = segments[target]
                     /\ segments'[target] = segments[idx]
                     /\ \A k \in 1..Len(segments) \ {idx, target} :
                          segments'[k] = segments[k]
                ELSE segments' = segments ]_vars

\* The second of three segments was moved and the timeline is no longer in
\* source order.
C25_Witness ==
  /\ lastOp.op = "move" /\ lastOp.ok /\ lastOp.idx = 2
  /\ Len(segments) = 3
  /\ \E k \in 1..2 : segments[k].start > segments[k + 1].start

\* C26: Reset All gives the timeline the editor opened with: one segment
\* with start 0, end = durationSeconds and duration = durationSeconds.
C26_ResetRestoresSeed ==
  [][ ResetAll
        => /\ segments' = Seed(durationSeconds)
           /\ Len(segments') = 1
           /\ segments'[1].start = 0
           /\ segments'[1].end = durationSeconds * MsPerSec
           /\ segments'[1].duration = durationSeconds * MsPerSec ]_vars

\* Reset All was pressed on a timeline and the seed of a one-second session
\* is back.
C26_Witness ==
  /\ lastOp.op = "reset" /\ durationSeconds = 1
  /\ segments = Seed(durationSeconds)


\* C27: a frame of a recording started with useWebcam = false shows nothing
\* of the camera: no circular overlay in CIRCLE, the placeholder fill in the
\* bottom band in SHORTS.
C27_NoCameraWithoutWebcam ==
  (last.op = "frame" /\ mediaRecorder # 0 /\ ~useCam[mediaRecorder])
    => /\ last.frame.overlay = NoOverlay
       /\ last.frame.band \in {"none", "placeholder"}


\* C28: at most one render loop is live at any moment, none is live while
\* the session is Idle or Paused, and no frame is drawn in an Idle session.
C28_AtMostOneLoop ==
  /\ Cardinality(loops) <= 1
  /\ Phase \in {"Idle", "Paused"} => loops = {}
  /\ last.op = "frame" => last.phase # "Idle"

\* C29: every chunk of the buffer stop() returned for a recording was
\* emitted by that recording's encoder.
C29_BufferChunksFromOwnEncoder ==
  \A a \in Attempts :
    blobOf[a][1] = "blob"
      => \A k \in 1..Len(blobOf[a][2]) : blobOf[a][2][k][1] = a

\* C30: a stop() called while the recorder has no active encoder returns
\* null and leaves no capture track live, no encoder active and no render
\* loop.
NoneActive == mediaRecorder = 0 \/ encoder[mediaRecorder] \notin Active

C30_IdleStopReturnsNull ==
  [][ (last'.op \in {"stop", "startFailed"} /\ last' # last /\ NoneActive)
        => /\ last'.ret = <<>>
           /\ \A k \in Kinds, a \in Attempts : tracks'[k][a] # "live"
           /\ \A a \in Attempts : encoder'[a] \notin Active
           /\ loops' = {} ]_vars


\* C31: while an export is in progress, an editor operation leaves the
\* source video's position, the segment sequence being exported and the
\* export's encoder as they are.
C31_ExportUndisturbed ==
  [][ (isExporting /\ lastOp' # lastOp)
        => /\ vTime' = vTime
           /\ exSegs' = exSegs
           /\ rec' = rec /\ currentSegIdx' = currentSegIdx ]_vars


\* a delete, an accepted move or a reset
TimelineEdit ==
  \/ \E idx \in 1..MaxSegments : DeleteSegment(idx)
  \/ \E idx \in 1..MaxSegments, dir \in {-1, 1} :
       MoveSegment(idx, dir) /\ lastOp'.ok
  \/ ResetAll

\* C32: after every delete, move or reset the virtual playhead is 0 and the
\* source video is positioned at the start of the first segment of the
\* resulting timeline.
C32_EditSeeksToNewStart ==
  [][ TimelineEdit
        => /\ currentTime' = 0
           /\ segments' # <<>> => vTime' = segments'[1].start ]_vars


\* C33 (playhead): during preview playback the virtual playhead never moves
\* backwards from one timeupdate to the next.
C33_PlayheadMonotonic ==
  [][ (isPlaying /\ lastOp.op = "timeupdate" /\ TimeUpdate)
        => currentTime' >= currentTime ]_vars

\* C33 (end): a preview that is playing eventually pauses with the virtual
\* playhead at the total duration.
C33_PlaybackEnds ==
  isPlaying ~> (~isPlaying /\ currentTime = totalDuration(segments))


\* C34: at most one elapsed-time interval timer is live at any moment, and
\* none is live while the session is idle or paused.
C34_OneElapsedTimer ==
  /\ Cardinality(timers) <= 1
  /\ Phase \in {"Idle", "Paused"} => timers = {}


\* C35: in every editor state all segments lie within [0, durationSeconds]
\* of the session and no two segments' source ranges overlap in more than a
\* shared endpoint.
C35_SegmentsDisjointInSource ==
  /\ \A i \in 1..Len(segments) :
       /\ 0 <= segments[i].start
       /\ segments[i].end <= durationSeconds * MsPerSec
  /\ \A i, j \in 1..Len(segments) :
       i # j => \/ segments[i].end <= segments[j].start
                \/ segments[j].end <= segments[i].start

\* C35's case: a timeline of three pieces, split twice and exchanged, whose
\* order is not the source's order.
C35_Witness ==
  /\ Len(segments) = 3
  /\ lastOp.op = "move" /\ lastOp.ok
  /\ segments[1].start > segments[2].start
  /\ segments[1].start = segments[2].end


\* C36: the session saved by an export has durationSeconds equal to the
\* total virtual duration of the timeline the export was started on.
C36_SavedDurationIsTimelineTotal ==
  exPc = "closed" =>
    sessions[Len(sessions)].durationSeconds * MsPerSec = totalDuration(exSegs)


\* C37: in the CIRCLE layout the region of the screen source that is drawn
\* onto the full surface is the centered crop with the canvas's aspect ratio,
\* the one drawCover computes for the box 0, 0, width, height.
C37_CircleScreenAspectFilled ==
  (drawOut # NoCall /\ drawIn.layout = "CIRCLE" /\ drawOut.screen # NoDraw)
    => drawOut.screen = CropRect(drawIn.screen.videoWidth,
                                 drawIn.screen.videoHeight,
                                 drawIn.canvas[1], drawIn.canvas[2])

\* A source with no decodable frame: readyState < 2 or videoWidth = 0.
NotDecodable(v) == ~v.ready \/ v.videoWidth = 0

\* C38: in both layouts a source with no decodable frame is not drawn and
\* nothing of its rendering is painted on its area, and the rest of the frame
\* is drawn: the other source when it has a frame, and the divider line.
C38_UndecodableSourceSkipped ==
  drawOut # NoCall =>
    /\ NotDecodable(drawIn.screen) => drawOut.screen = NoDraw
    /\ (drawIn.webcamStream /\ NotDecodable(drawIn.cam))
         => drawOut.camera = NoDraw /\ ~drawOut.ring
    /\ ~NotDecodable(drawIn.screen) => drawOut.screen # NoDraw
    /\ (drawIn.webcamStream /\ ~NotDecodable(drawIn.cam))
         => drawOut.camera # NoDraw
    /\ drawIn.layout = "SHORTS" => drawOut.divider
    /\ drawOut.fill = "black"


\* C39: a render-loop callback invokes drawFrame only when at least interval
\* = 1000 / targetFps ms have passed since lastFrameTime; after each drawn
\* frame 0 <= now - lastFrameTime < interval; and the number of frames drawn
\* never exceeds the time elapsed since the start divided by the interval,
\* plus one.
C39_FramesPacedByInterval ==
  /\ [][ loopCall' # loopCall =>
           /\ loopCall'.invoked =>
                loopCall'.now - lastFrameTime >= IntervalT(targetFps)
           /\ loopCall'.drew =>
                /\ 0 <= loopCall'.now - lastFrameTime'
                /\ loopCall'.now - lastFrameTime' < IntervalT(targetFps)
       ]_vars
  /\ [](loopFrames * IntervalT(targetFps)
          <= (loopClock - loopStart) + IntervalT(targetFps))

\* C39's case: a frame drawn by a callback that came more than one interval
\* late, after two frames were drawn already, with the remainder carried
\* over.
C39_Witness ==
  /\ loopCall # NoCall /\ loopCall.drew
  /\ loopCall.elapsed > IntervalT(targetFps)
  /\ loopCall.now - lastFrameTime > 0
  /\ loopFrames >= 2

====
